---- MODULE Spec2Model ----
(***************************************************************************)
(* Model of gpustack/detectors/efsmi/efsmi.py: the Enflame "efsmi"         *)
(* detector.  Three layers, as in the source:                              *)
(*   _run_command    runs one efsmi invocation and classifies its outcome  *)
(*   _get_gpu_info   parses one invocation's stdout into an ordered dict   *)
(*                   device id -> (field -> typed value)                   *)
(*   _gather_gpu_info runs the four queries and joins the four dicts       *)
(*                                                                         *)
(* A Python str is modelled as a sequence of lexical tokens: a token is    *)
(* one whitespace character, one ":" or a maximal run of other characters. *)
(* A text (stdout) is the sequence of its lines (str.splitlines); the      *)
(* empty str is the empty sequence of lines.                               *)
(*                                                                         *)
(* Two specifications share the variables:                                 *)
(*   Spec        one call of gather_gpu_info (queries, join, return)       *)
(*   ParserSpec  the line loop of _get_gpu_info on one text, line by line  *)
(***************************************************************************)
EXTENDS Integers, Sequences, FiniteSets, TLC

VARIABLES
    \* ---- _gather_gpu_info (Spec)
    pc,             \* position in the call: "run", "ran", "join", "done", "failed", "idle"
    issued,         \* the commands handed to subprocess.run so far, in order
    result,         \* the CompletedProcess of the latest subprocess.run
    infos,          \* the dicts returned by the _get_gpu_info calls so far
    gpu_devices,    \* the local list `devices` of _gather_gpu_info
    returned,       \* what the caller got: a list of records, or nothing
    error,          \* the exception that left gather_gpu_info, if any
    identity_seen,  \* history: ids of the boundary lines of the identity text, first-seen order
    \* ---- _get_gpu_info line loop (ParserSpec)
    output,         \* the text being parsed (sequence of lines)
    line_no,        \* index of the next line of output.splitlines()
    devices,        \* the dict `devices` of _get_gpu_info (insertion ordered)
    current_device, \* the accumulator `current_device`
    raised          \* the exception raised by a coercion, if any

vars == <<pc, issued, result, infos, gpu_devices, returned, error, identity_seen,
          output, line_no, devices, current_device, raised>>
gather_vars == <<pc, issued, result, infos, gpu_devices, returned, error, identity_seen>>
parser_vars == <<output, line_no, devices, current_device, raised>>

-----------------------------------------------------------------------------
(* Bounds of the model                                                     *)

\* longest text of ParserSpec, in lines
MaxLines == 3
\* most device blocks in one query's text of Spec
MaxBlocks == 2

-----------------------------------------------------------------------------
(* Tokens                                                                  *)

\* \s of the patterns; str.strip and str.split use the same class
IsSpace(t) == t \in {" ", "\t"}

\* decimal value of the tokens matching \d+ (int() of the token)
DecimalValue ==
    ("0" :> 0) @@ ("1" :> 1) @@ ("5" :> 5) @@ ("12" :> 12) @@ ("16" :> 16) @@
    ("30" :> 30) @@ ("45" :> 45) @@ ("50" :> 50) @@ ("100" :> 100) @@
    ("512" :> 512) @@ ("1024" :> 1024)

IsDigits(t) == t \in DOMAIN DecimalValue

\* tokens made of \w characters only (letters, digits, underscore)
WordTokens ==
    DOMAIN DecimalValue \cup
    {"DEV", "ID", "Dev", "Name", "UUID", "Total", "Used", "Size", "GCU", "Temp",
     "Usage", "GCU0", "GCU1", "abc", "def", "MiB", "C", "efsmi", "report",
     "No", "no", "devices", "found", "dev", "id", "name", "uuid", "total",
     "used", "size", "gcu", "temp", "usage", "gcu0", "gcu1", "mib", "c", "_"}

IsWord(t) == t \in WordTokens

\* str.lower, token by token
LowerOf ==
    ("DEV" :> "dev") @@ ("ID" :> "id") @@ ("Dev" :> "dev") @@ ("Name" :> "name") @@
    ("UUID" :> "uuid") @@ ("Total" :> "total") @@ ("Used" :> "used") @@
    ("Size" :> "size") @@ ("GCU" :> "gcu") @@ ("Temp" :> "temp") @@
    ("Usage" :> "usage") @@ ("GCU0" :> "gcu0") @@ ("GCU1" :> "gcu1") @@
    ("MiB" :> "mib") @@ ("C" :> "c") @@ ("No" :> "no") @@ ("N/A" :> "n/a")

Lower(t) == IF t \in DOMAIN LowerOf THEN LowerOf[t] ELSE t

LowerLine(line) == [i \in 1..Len(line) |-> Lower(line[i])]

-----------------------------------------------------------------------------
(* Strings as token sequences                                              *)

\* s[i:] for a 1-based i
From(s, i) == SubSeq(s, i, Len(s))

\* does the token sequence sub occur in s
Contains(s, sub) ==
    \E i \in 1..(Len(s) - Len(sub) + 1) : SubSeq(s, i, i + Len(sub) - 1) = sub

\* str.endswith
EndsWith(s, suffix) ==
    /\ Len(s) >= Len(suffix)
    /\ SubSeq(s, Len(s) - Len(suffix) + 1, Len(s)) = suffix

\* str.strip: drop the leading and the trailing whitespace
Strip(s) ==
    LET idx == {i \in 1..Len(s) : ~IsSpace(s[i])}
    IN  IF idx = {} THEN <<>>
        ELSE LET lo == CHOOSE i \in idx : \A j \in idx : i <= j
                 hi == CHOOSE i \in idx : \A j \in idx : j <= i
             IN  SubSeq(s, lo, hi)

\* str.split()[0] of a stripped str: the first whitespace-delimited field
\* (<<>> when split() is the empty list)
FirstField(s) ==
    LET sp == {i \in 1..Len(s) : IsSpace(s[i])}
    IN  IF sp = {} THEN s
        ELSE SubSeq(s, 1, (CHOOSE i \in sp : \A j \in sp : i <= j) - 1)

\* str.replace(" ", "_")
ReplaceSpaces(s) == [i \in 1..Len(s) |-> IF s[i] = " " THEN "_" ELSE s[i]]

-----------------------------------------------------------------------------
(* Typed values of the parsed fields                                       *)

IntV(n)   == [ty |-> "int",   n |-> n, s |-> <<>>]
\* a float is held in tenths: 45.0 is FloatV(450), 12.5 is FloatV(125)
FloatV(t) == [ty |-> "float", n |-> t, s |-> <<>>]
StrV(s)   == [ty |-> "str",   n |-> 0, s |-> s]

\* the dict keys the source names
DEV_ID     == <<"DEV", "_", "ID">>
Dev_Name   == <<"Dev", "_", "Name">>
Dev_UUID   == <<"Dev", "_", "UUID">>
Total_Size == <<"Total", "_", "Size">>
Used_Size  == <<"Used", "_", "Size">>
GCU_Temp   == <<"GCU", "_", "Temp">>
GCU_Usage  == <<"GCU", "_", "Usage">>

NoExc == "none"

-----------------------------------------------------------------------------
(* The two patterns of _get_gpu_info                                       *)

\* dev_id_pattern.match(line): re.match anchors "DEV ID (\d+)" at the start
\* of the line and allows anything after the digits
DevIdMatch(line) ==
    /\ Len(line) >= 5
    /\ SubSeq(line, 1, 4) = <<"DEV", " ", "ID", " ">>
    /\ IsDigits(line[5])

\* group(1) of dev_id_pattern
DevIdGroup(line) == line[5]

\* index of the first ":" of the line, 0 when there is none
FirstColon(line) ==
    LET idx == {i \in 1..Len(line) : line[i] = ":"}
    IN  IF idx = {} THEN 0 ELSE CHOOSE i \in idx : \A j \in idx : i <= j

\* \w+(?:\s\w+)* : words separated by exactly one whitespace character
IsKeyText(k) ==
    /\ Len(k) % 2 = 1
    /\ \A j \in 1..Len(k) : IF j % 2 = 1 THEN IsWord(k[j]) ELSE IsSpace(k[j])

\* property_pattern.match(line): ^\s*(\w+(?:\s\w+)*)\s*:\s*(.*)$
\* the key group holds no ":", so the ":" matched is the first of the line
PropertyMatch(line) ==
    /\ FirstColon(line) > 0
    /\ IsKeyText(Strip(SubSeq(line, 1, FirstColon(line) - 1)))

\* group(1) and group(2) of property_pattern (group(2) up to its strip())
PropertyKeyGroup(line)   == Strip(SubSeq(line, 1, FirstColon(line) - 1))
PropertyValueGroup(line) == From(line, FirstColon(line) + 1)

-----------------------------------------------------------------------------
(* Coercions of _get_gpu_info                                              *)

\* a size coercion that takes the token for kibibytes
CoerceSizeKiB(value) ==
    LET f == FirstField(value)
    IN  IF f = <<>> THEN [raised |-> "IndexError", value |-> StrV(value)]
        ELSE IF Len(f) = 1 /\ IsDigits(f[1])
             THEN [raised |-> NoExc, value |-> IntV(DecimalValue[f[1]] * 1024)]
             ELSE [raised |-> "ValueError", value |-> StrV(value)]

\* int(value.split()[0]) * 1024 * 1024
CoerceSize(value) ==
    LET f == FirstField(value)
    IN  IF f = <<>> THEN [raised |-> "IndexError", value |-> StrV(value)]
        ELSE IF Len(f) = 1 /\ IsDigits(f[1])
             THEN [raised |-> NoExc, value |-> IntV(DecimalValue[f[1]] * 1024 * 1024)]
             ELSE [raised |-> "ValueError", value |-> StrV(value)]

\* the float literals among the tokens, in tenths
FloatTenths(t) == IF IsDigits(t) THEN DecimalValue[t] * 10 ELSE 125
IsFloatLiteral(t) == IsDigits(t) \/ t = "12.5"

\* float(value.split()[0])
CoerceFloat(value) ==
    LET f == FirstField(value)
    IN  IF f = <<>> THEN [raised |-> "IndexError", value |-> StrV(value)]
        ELSE IF Len(f) = 1 /\ IsFloatLiteral(f[1])
             THEN [raised |-> NoExc, value |-> FloatV(FloatTenths(f[1]))]
             ELSE [raised |-> "ValueError", value |-> StrV(value)]

\* does the key take the size coercion: key.endswith("_Size")
IsSizeKey(key) == EndsWith(key, <<"_", "Size">>)

\* a coercion that keeps the text of a reading it cannot convert
CoerceKeepText(key, value) ==
    LET c == IF IsSizeKey(key) THEN CoerceSize(value)
             ELSE IF key = GCU_Temp \/ key = GCU_Usage THEN CoerceFloat(value)
             ELSE [raised |-> NoExc, value |-> StrV(value)]
    IN  IF c.raised # NoExc THEN [raised |-> NoExc, value |-> StrV(value)] ELSE c

\* lines 84-89: the three coercions by key name (the three tests exclude
\* one another, so at most one of the ifs runs)
Coerce(key, value) ==
    IF IsSizeKey(key) THEN CoerceSize(value)
    ELSE IF key = GCU_Temp THEN CoerceFloat(value)
    ELSE IF key = GCU_Usage THEN CoerceFloat(value)
    ELSE [raised |-> NoExc, value |-> StrV(value)]

-----------------------------------------------------------------------------
(* The insertion-ordered dict `devices`: a sequence of entries [k, v]      *)

HasKey(d, k) == \E i \in 1..Len(d) : d[i].k = k
Lookup(d, k) == d[CHOOSE i \in 1..Len(d) : d[i].k = k].v
Keys(d)      == [i \in 1..Len(d) |-> d[i].k]

\* a dict that puts a new key first
DictSetFirst(d, k, v) ==
    IF HasKey(d, k)
    THEN [i \in 1..Len(d) |-> IF d[i].k = k THEN [k |-> k, v |-> v] ELSE d[i]]
    ELSE <<[k |-> k, v |-> v]>> \o d

\* d[k] = v: a present key keeps its position, a new key goes last
DictSet(d, k, v) ==
    IF HasKey(d, k)
    THEN [i \in 1..Len(d) |-> IF d[i].k = k THEN [k |-> k, v |-> v] ELSE d[i]]
    ELSE Append(d, [k |-> k, v |-> v])

\* `if current_device:` an empty dict is falsy
IsOpen(cur) == DOMAIN cur # {}

\* lines 72-73, 94-95: save the accumulator under its DEV_ID
Flush(devs, cur) == IF IsOpen(cur) THEN DictSet(devs, cur[DEV_ID], cur) ELSE devs

\* a line loop that takes a property line with no accumulator open
ParseLineUnguarded(st, line) ==
    IF DevIdMatch(line)
    THEN [devices        |-> Flush(st.devices, st.current_device),
          current_device |-> (DEV_ID :> IntV(DecimalValue[DevIdGroup(line)])),
          raised         |-> NoExc]
    ELSE IF PropertyMatch(line)
    THEN LET key == ReplaceSpaces(PropertyKeyGroup(line))
             c   == Coerce(key, Strip(PropertyValueGroup(line)))
         IN  IF c.raised # NoExc
             THEN [st EXCEPT !.raised = c.raised]
             ELSE [st EXCEPT !.current_device = (key :> c.value) @@ st.current_device]
    ELSE st

\* lines 67-91: one iteration of the line loop, on the parser state
\* st = [devices, current_device, raised]
ParseLine(st, line) ==
    IF DevIdMatch(line)
    THEN [devices        |-> Flush(st.devices, st.current_device),
          current_device |-> (DEV_ID :> IntV(DecimalValue[DevIdGroup(line)])),
          raised         |-> NoExc]
    ELSE IF PropertyMatch(line) /\ IsOpen(st.current_device)
    THEN LET key == ReplaceSpaces(PropertyKeyGroup(line))
             c   == Coerce(key, Strip(PropertyValueGroup(line)))
         IN  IF c.raised # NoExc
             THEN [st EXCEPT !.raised = c.raised]
             ELSE [st EXCEPT !.current_device = (key :> c.value) @@ st.current_device]
    ELSE st

\* lines 59-60: the parser state before the first line
ParseStart == [devices |-> <<>>, current_device |-> <<>>, raised |-> NoExc]

\* lines 67-91 over a whole text; the loop ends at the first exception
RECURSIVE ParseLines(_, _)
ParseLines(st, lines) ==
    IF lines = <<>> \/ st.raised # NoExc THEN st
    ELSE ParseLines(ParseLine(st, Head(lines)), Tail(lines))

\* lines 59-97: the dict returned for a text, or the exception raised
ParseOutput(text) ==
    LET st == ParseLines(ParseStart, text)
    IN  IF st.raised # NoExc THEN [raised |-> st.raised, devices |-> <<>>]
        ELSE [raised |-> NoExc, devices |-> Flush(st.devices, st.current_device)]

-----------------------------------------------------------------------------
(* ParserSpec: the line loop of _get_gpu_info, one line per step           *)

\* all sequences over S of length at most n
SeqUpTo(S, n) == UNION {[1..k -> S] : k \in 0..n}

\* the lines the texts of ParserSpec are made of
LineDev0       == <<"DEV", " ", "ID", " ", "0">>
LineDev1       == <<"DEV", " ", "ID", " ", "1">>
LineIndentDev1 == <<" ", "DEV", " ", "ID", " ", "1">>
LineTotalSize  == <<"Total", " ", "Size", " ", ":", " ", "100", " ", "MiB">>
LineLowerSize  == <<"total", " ", "size", " ", ":", " ", "100", " ", "MiB">>
LineUsedEmpty  == <<"Used", " ", "Size", " ", ":">>
LineTemp       == <<" ", "GCU", " ", "Temp", " ", ":", " ", "45", " ", "C">>
LineUsageNA    == <<"GCU", " ", "Usage", " ", ":", " ", "N/A">>
LineName       == <<"Dev", " ", "Name", ":", "GCU0">>
LineDevIdProp  == <<"DEV", " ", "ID", " ", ":", " ", "5">>
LineBlank      == <<>>
LineJunk       == <<"efsmi", " ", "report">>

ParserLines ==
    {LineDev0, LineDev1, LineIndentDev1, LineTotalSize, LineLowerSize, LineUsedEmpty,
     LineTemp, LineUsageNA, LineName, LineDevIdProp, LineBlank, LineJunk}

ParserTexts == SeqUpTo(ParserLines, MaxLines)

\* the variables of the gather call, at rest while the parser runs alone
GatherIdle ==
    /\ issued = <<>>
    /\ result = [returncode |-> 0, stdout |-> <<>>, stderr |-> <<>>]
    /\ infos = <<>>
    /\ gpu_devices = <<>>
    /\ returned = [given |-> FALSE, list |-> <<>>]
    /\ error = [exc |-> NoExc]
    /\ identity_seen = <<>>

\* lines 59-60, for any text
ParserInit ==
    /\ pc = "parse"
    /\ GatherIdle
    /\ output \in ParserTexts
    /\ line_no = 1
    /\ devices = ParseStart.devices
    /\ current_device = ParseStart.current_device
    /\ raised = ParseStart.raised

\* lines 67-91: one iteration of `for line in output.splitlines()`
ParseStep ==
    /\ pc = "parse"
    /\ line_no <= Len(output)
    /\ LET st == ParseLine([devices |-> devices, current_device |-> current_device,
                            raised |-> raised], output[line_no])
       IN  /\ devices' = st.devices
           /\ current_device' = st.current_device
           /\ raised' = st.raised
           /\ pc' = IF st.raised # NoExc THEN "parse_failed" ELSE "parse"
           /\ line_no' = IF st.raised # NoExc THEN line_no ELSE line_no + 1
    /\ UNCHANGED <<output, issued, result, infos, gpu_devices, returned, error, identity_seen>>

\* a return that leaves the last accumulator out
ParseReturnNoFlush ==
    /\ pc = "parse"
    /\ line_no = Len(output) + 1
    /\ pc' = "parsed"
    /\ UNCHANGED <<output, line_no, devices, current_device, raised,
                   issued, result, infos, gpu_devices, returned, error, identity_seen>>

\* lines 93-97: the loop is over; save the last accumulator and return
ParseReturn ==
    /\ pc = "parse"
    /\ line_no = Len(output) + 1
    /\ devices' = Flush(devices, current_device)
    /\ pc' = "parsed"
    /\ UNCHANGED <<output, line_no, current_device, raised,
                   issued, result, infos, gpu_devices, returned, error, identity_seen>>

ParserNext == ParseStep \/ ParseReturn

ParserSpec == ParserInit /\ [][ParserNext]_vars

\* types of the parser's variables
ParserTypeOK ==
    /\ line_no \in 1..(MaxLines + 2)
    /\ raised \in {NoExc, "IndexError", "ValueError"}
    /\ \A i \in 1..Len(devices) : devices[i].k.ty \in {"int", "str"}

-----------------------------------------------------------------------------
(* _run_command                                                            *)

\* lines 101-106: the four commands, in the order the tuple evaluates them
Commands ==
    << <<"efsmi", "-q", "-d", "DEVICE">>,
       <<"efsmi", "-q", "-d", "MEMORY">>,
       <<"efsmi", "-q", "-d", "TEMP">>,
       <<"efsmi", "-q", "-d", "USAGE">> >>

\* line 38: "no devices" in output.lower()  (the marker holds no newline,
\* so it lies within one line)
HasNoDevices(text) ==
    \E i \in 1..Len(text) : Contains(LowerLine(text[i]), <<"no", " ", "devices">>)

\* lines 48-52, result still None: subprocess.run itself raised
SpawnError(command) ==
    [exc |-> "Exception", message |-> "Failed to execute", command |-> command,
     cause |-> "OSError"]

\* an error message that leaves the two streams out
RunErrorNoStreams(command, cause, res) ==
    [exc |-> "Exception", message |-> "Failed to execute", command |-> command,
     cause |-> cause, returncode |-> res.returncode]

\* an error message that leaves the command out
RunErrorNoCommand(command, cause, res) ==
    [exc |-> "Exception", message |-> "Failed to execute",
     cause |-> cause, returncode |-> res.returncode,
     stdout |-> res.stdout, stderr |-> res.stderr]

\* lines 48-52, result set: the message carries the cause (which names the
\* return code), stdout and stderr
RunError(command, cause, res) ==
    [exc |-> "Exception", message |-> "Failed to execute", command |-> command,
     cause |-> cause, returncode |-> res.returncode,
     stdout |-> res.stdout, stderr |-> res.stderr]

\* a runner that tests the return code before the marker
RunCommandExitFirst(command, res) ==
    IF res.returncode # 0
    THEN [kind |-> "raise", error |-> RunError(command, "Unexpected return code", res)]
    ELSE IF HasNoDevices(res.stdout)
    THEN [kind |-> "None"]
    ELSE IF res.stdout = <<>>
    THEN [kind |-> "raise", error |-> RunError(command, "Output is empty", res)]
    ELSE [kind |-> "output", output |-> res.stdout]

\* lines 34-52: the outcome of _run_command for a completed process:
\* None, the stdout text, or the exception raised
RunCommand(command, res) ==
    IF HasNoDevices(res.stdout)
    THEN [kind |-> "None"]
    ELSE IF res.returncode # 0
    THEN [kind |-> "raise", error |-> RunError(command, "Unexpected return code", res)]
    ELSE IF res.stdout = <<>>
    THEN [kind |-> "raise", error |-> RunError(command, "Output is empty", res)]
    ELSE [kind |-> "output", output |-> res.stdout]

\* a _get_gpu_info that takes a text with no device block for no data
GetGpuInfoEmptyFails(command, res) ==
    LET out == RunCommand(command, res)
    IN  IF out.kind = "raise" THEN out
        ELSE IF out.kind = "None"
        THEN [kind |-> "raise",
              error |-> [exc |-> "Exception", message |-> "Failed to get GPU base info"]]
        ELSE LET parsed == ParseOutput(out.output)
             IN  IF parsed.raised # NoExc
                 THEN [kind |-> "raise", error |-> [exc |-> parsed.raised]]
                 ELSE IF parsed.devices = <<>>
                 THEN [kind |-> "raise",
                       error |-> [exc |-> "Exception",
                                  message |-> "Failed to get GPU base info"]]
                 ELSE [kind |-> "devices", devices |-> parsed.devices]

\* lines 54-97: the outcome of _get_gpu_info for a completed process
GetGpuInfo(command, res) ==
    LET out == RunCommand(command, res)
    IN  IF out.kind = "raise" THEN out
        ELSE IF out.kind = "None"
        THEN [kind |-> "raise",
              error |-> [exc |-> "Exception", message |-> "Failed to get GPU base info"]]
        ELSE LET parsed == ParseOutput(out.output)
             IN  IF parsed.raised # NoExc
                 THEN [kind |-> "raise", error |-> [exc |-> parsed.raised]]
                 ELSE [kind |-> "devices", devices |-> parsed.devices]

-----------------------------------------------------------------------------
(* _gather_gpu_info: the join                                              *)

KeyError(k) == [exc |-> "KeyError", key |-> k]

\* lines 110-128: the first lookup of the GPUDeviceInfo(...) call that
\* fails, the keyword arguments being evaluated top to bottom
FirstMissing(key, item, memory_info, temperature_info, usage_info) ==
    IF Dev_Name \notin DOMAIN item THEN [raise |-> TRUE, error |-> KeyError(StrV(Dev_Name))]
    ELSE IF Dev_UUID \notin DOMAIN item THEN [raise |-> TRUE, error |-> KeyError(StrV(Dev_UUID))]
    ELSE IF ~HasKey(usage_info, key) THEN [raise |-> TRUE, error |-> KeyError(key)]
    ELSE IF GCU_Usage \notin DOMAIN Lookup(usage_info, key)
         THEN [raise |-> TRUE, error |-> KeyError(StrV(GCU_Usage))]
    ELSE IF ~HasKey(memory_info, key) THEN [raise |-> TRUE, error |-> KeyError(key)]
    ELSE IF Total_Size \notin DOMAIN Lookup(memory_info, key)
         THEN [raise |-> TRUE, error |-> KeyError(StrV(Total_Size))]
    ELSE IF Used_Size \notin DOMAIN Lookup(memory_info, key)
         THEN [raise |-> TRUE, error |-> KeyError(StrV(Used_Size))]
    ELSE IF ~HasKey(temperature_info, key) THEN [raise |-> TRUE, error |-> KeyError(key)]
    ELSE IF GCU_Temp \notin DOMAIN Lookup(temperature_info, key)
         THEN [raise |-> TRUE, error |-> KeyError(StrV(GCU_Temp))]
    ELSE [raise |-> FALSE]

\* a GPUDeviceInfo with total and used exchanged
GPUDeviceInfoSwapped(key, item, memory_info, temperature_info, usage_info) ==
    [index             |-> item[DEV_ID],
     device_index      |-> item[DEV_ID],
     device_chip_index |-> item[DEV_ID],
     name              |-> item[Dev_Name],
     uuid              |-> item[Dev_UUID],
     vendor            |-> "VendorEnum.Enflame",
     type              |-> "DeviceTypeEnum.GPU",
     core              |-> [utilization_rate |-> Lookup(usage_info, key)[GCU_Usage]],
     memory            |-> [is_unified_memory |-> FALSE,
                            total |-> Lookup(memory_info, key)[Used_Size],
                            used  |-> Lookup(memory_info, key)[Total_Size],
                            utilization_rate |-> Lookup(usage_info, key)[GCU_Usage]],
     temperature       |-> Lookup(temperature_info, key)[GCU_Temp]]

\* lines 110-128: the GPUDeviceInfo built when every lookup succeeds
GPUDeviceInfo(key, item, memory_info, temperature_info, usage_info) ==
    [index             |-> item[DEV_ID],
     device_index      |-> item[DEV_ID],
     device_chip_index |-> item[DEV_ID],
     name              |-> item[Dev_Name],
     uuid              |-> item[Dev_UUID],
     vendor            |-> "VendorEnum.Enflame",
     type              |-> "DeviceTypeEnum.GPU",
     core              |-> [utilization_rate |-> Lookup(usage_info, key)[GCU_Usage]],
     memory            |-> [is_unified_memory |-> FALSE,
                            total |-> Lookup(memory_info, key)[Total_Size],
                            used  |-> Lookup(memory_info, key)[Used_Size],
                            utilization_rate |-> Lookup(usage_info, key)[GCU_Usage]],
     temperature       |-> Lookup(temperature_info, key)[GCU_Temp]]

\* a join that puts a zero in the place of a field the block of the id lacks
DeviceRecordDefaults(key, item, memory_info, temperature_info, usage_info) ==
    LET Field(d, f, dflt) == IF f \in DOMAIN d THEN d[f] ELSE dflt
    IN  IF ~HasKey(usage_info, key) \/ ~HasKey(memory_info, key)
           \/ ~HasKey(temperature_info, key)
        THEN [raise |-> TRUE, error |-> KeyError(key)]
        ELSE [raise |-> FALSE,
              device |->
                [index             |-> item[DEV_ID],
                 device_index      |-> item[DEV_ID],
                 device_chip_index |-> item[DEV_ID],
                 name              |-> Field(item, Dev_Name, StrV(<<>>)),
                 uuid              |-> Field(item, Dev_UUID, StrV(<<>>)),
                 vendor            |-> "VendorEnum.Enflame",
                 type              |-> "DeviceTypeEnum.GPU",
                 core              |-> [utilization_rate |->
                     Field(Lookup(usage_info, key), GCU_Usage, FloatV(0))],
                 memory            |-> [is_unified_memory |-> FALSE,
                     total |-> Field(Lookup(memory_info, key), Total_Size, IntV(0)),
                     used  |-> Field(Lookup(memory_info, key), Used_Size, IntV(0)),
                     utilization_rate |->
                         Field(Lookup(usage_info, key), GCU_Usage, FloatV(0))],
                 temperature       |->
                     Field(Lookup(temperature_info, key), GCU_Temp, FloatV(0))]]

\* a join that reads the temperature as zero when the temperature dict
\* lacks the id
DeviceRecordNoTemperature(key, item, memory_info, temperature_info, usage_info) ==
    IF HasKey(temperature_info, key)
    THEN LET miss == FirstMissing(key, item, memory_info, temperature_info, usage_info)
         IN  IF miss.raise THEN miss
             ELSE [raise |-> FALSE,
                   device |-> GPUDeviceInfo(key, item, memory_info,
                                            temperature_info, usage_info)]
    ELSE LET here == <<[k |-> key, v |-> (GCU_Temp :> FloatV(0))]>>
             miss == FirstMissing(key, item, memory_info, here, usage_info)
         IN  IF miss.raise THEN miss
             ELSE [raise |-> FALSE,
                   device |-> GPUDeviceInfo(key, item, memory_info, here, usage_info)]

\* a join that leaves out what it cannot look up instead of raising
DeviceRecordLenient(key, item, memory_info, temperature_info, usage_info) ==
    IF FirstMissing(key, item, memory_info, temperature_info, usage_info).raise
    THEN [raise |-> FALSE, device |-> [index |-> item[DEV_ID]]]
    ELSE [raise |-> FALSE,
          device |-> GPUDeviceInfo(key, item, memory_info, temperature_info, usage_info)]

\* lines 110-128: the record of one identity entry, or the KeyError raised
DeviceRecord(key, item, memory_info, temperature_info, usage_info) ==
    LET miss == FirstMissing(key, item, memory_info, temperature_info, usage_info)
    IN  IF miss.raise THEN miss
        ELSE [raise |-> FALSE,
              device |-> GPUDeviceInfo(key, item, memory_info, temperature_info, usage_info)]

-----------------------------------------------------------------------------
(* What efsmi may answer in Spec: the texts of one query                   *)

\* what efsmi reports for device 0 and device 1
NameOf  == <<"GCU0", "GCU1">>
UuidOf  == <<"abc", "def">>
TotalOf == <<"1024", "512">>
UsedOf  == <<"100", "16">>
TempOf  == <<"45", "50">>
UsageOf == <<"12", "30">>

\* "key words : value unit"
PropLine(k1, k2, v, unit) ==
    <<k1, " ", k2, " ", ":", " ", v>> \o (IF unit = "" THEN <<>> ELSE <<" ", unit>>)

BoundaryLine(id) == <<"DEV", " ", "ID", " ", IF id = 0 THEN "0" ELSE "1">>

\* the property lines of the block of device id in the c-th query
BlockProps(c, id) ==
    CASE c = 1 -> << PropLine("Dev", "Name", NameOf[id + 1], ""),
                     PropLine("Dev", "UUID", UuidOf[id + 1], "") >>
      [] c = 2 -> << PropLine("Total", "Size", TotalOf[id + 1], "MiB"),
                     PropLine("Used", "Size", UsedOf[id + 1], "MiB") >>
      [] c = 3 -> << PropLine("GCU", "Temp", TempOf[id + 1], "C") >>
      [] c = 4 -> << PropLine("GCU", "Usage", UsageOf[id + 1], "%") >>

\* s without its i-th element (s itself for i = 0)
Without(s, i) == IF i = 0 THEN s ELSE SubSeq(s, 1, i - 1) \o SubSeq(s, i + 1, Len(s))

\* the device blocks of the c-th query: device 0 and device 1 in full, and
\* device 1 with one of its property lines left out
Blocks(c) ==
    {<<BoundaryLine(0)>> \o BlockProps(c, 0)} \cup
    {<<BoundaryLine(1)>> \o Without(BlockProps(c, 1), i) : i \in 0..Len(BlockProps(c, 1))}

RECURSIVE Flatten(_)
Flatten(ss) == IF ss = <<>> THEN <<>> ELSE Head(ss) \o Flatten(Tail(ss))

NoDevicesText == << <<"No", " ", "devices", " ", "found">> >>
HeaderText    == << <<"efsmi", " ", "report">> >>
\* the block of device 0 followed by a line that holds the marker
MarkedText(c) == <<BoundaryLine(0)>> \o BlockProps(c, 0) \o << <<"no", " ", "devices">> >>
\* a block of device 0 whose reading is not a number
MalformedText == <<BoundaryLine(0), PropLine("GCU", "Temp", "N/A", "")>>

\* the stdout texts of the c-th query: the empty text, the "no devices"
\* text, a text with no device block, a text with a block and the marker,
\* a text with a malformed reading, and up to MaxBlocks device blocks
Texts(c) ==
    {<<>>, NoDevicesText, HeaderText, MarkedText(c), MalformedText} \cup
    {Flatten(bs) : bs \in SeqUpTo(Blocks(c), MaxBlocks) \ {<<>>}}

ErrText == <<"driver", " ", "error">>

\* the completed processes of the c-th query
Completed(c) ==
    {[returncode |-> rc.code, stdout |-> t, stderr |-> rc.err] :
        rc \in {[code |-> 0, err |-> <<>>], [code |-> 1, err |-> ErrText]},
        t \in Texts(c)}

\* the ids of the boundary lines of a text, each once, in first-seen order
RECURSIVE FirstSeen(_, _)
FirstSeen(text, seen) ==
    IF text = <<>> THEN seen
    ELSE LET l  == Head(text)
             id == IntV(DecimalValue[DevIdGroup(l)])
         IN  IF DevIdMatch(l) /\ \A i \in 1..Len(seen) : seen[i] # id
             THEN FirstSeen(Tail(text), Append(seen, id))
             ELSE FirstSeen(Tail(text), seen)

-----------------------------------------------------------------------------
(* Spec: one call of gather_gpu_info                                       *)

ParserIdle ==
    /\ output = <<>>
    /\ line_no = 1
    /\ devices = <<>>
    /\ current_device = <<>>
    /\ raised = NoExc

\* line 100 and the entry of the tuple of line 101
Init ==
    /\ pc = "run"
    /\ issued = <<>>
    /\ result = [returncode |-> 0, stdout |-> <<>>, stderr |-> <<>>]
    /\ infos = <<>>
    /\ gpu_devices = <<>>
    /\ returned = [given |-> FALSE, list |-> <<>>]
    /\ error = [exc |-> NoExc]
    /\ identity_seen = <<>>
    /\ ParserIdle

\* lines 30-32: subprocess.run of the next command returns a completed process
SubprocessRun ==
    /\ pc = "run"
    /\ Len(issued) < Len(Commands)
    /\ \E res \in Completed(Len(issued) + 1) :
          /\ result' = res
          /\ identity_seen' = IF Len(issued) = 0 THEN FirstSeen(res.stdout, <<>>)
                              ELSE identity_seen
    /\ issued' = Append(issued, Commands[Len(issued) + 1])
    /\ pc' = "ran"
    /\ UNCHANGED <<infos, gpu_devices, returned, error>>
    /\ UNCHANGED parser_vars

\* lines 30-32, 48-52: subprocess.run of the next command raises
SubprocessRaise ==
    /\ pc = "run"
    /\ Len(issued) < Len(Commands)
    /\ issued' = Append(issued, Commands[Len(issued) + 1])
    /\ error' = SpawnError(Commands[Len(issued) + 1])
    /\ pc' = "failed"
    /\ UNCHANGED <<result, infos, gpu_devices, returned, identity_seen>>
    /\ UNCHANGED parser_vars

\* a gather that goes on to the next query after a failed one
GetInfoGoesOn ==
    /\ pc = "ran"
    /\ LET r == GetGpuInfo(issued[Len(issued)], result)
       IN  /\ infos' = IF r.kind = "raise" THEN infos ELSE Append(infos, r.devices)
           /\ pc' = IF r.kind = "raise"
                    THEN (IF Len(issued) = Len(Commands) THEN "failed" ELSE "run")
                    ELSE (IF Len(infos) + 1 = Len(Commands) THEN "join" ELSE "run")
           /\ error' = IF r.kind = "raise" /\ Len(issued) = Len(Commands)
                       THEN r.error ELSE error
    /\ UNCHANGED <<issued, result, gpu_devices, returned, identity_seen>>
    /\ UNCHANGED parser_vars

\* lines 34-97: the rest of _get_gpu_info on the completed process; its
\* exception leaves gather_gpu_info, its dict is the next element of the tuple
GetInfo ==
    /\ pc = "ran"
    /\ LET r == GetGpuInfo(issued[Len(issued)], result)
       IN  IF r.kind = "raise"
           THEN /\ error' = r.error
                /\ pc' = "failed"
                /\ infos' = infos
           ELSE /\ infos' = Append(infos, r.devices)
                /\ pc' = IF Len(infos) + 1 = Len(Commands) THEN "join" ELSE "run"
                /\ error' = error
    /\ UNCHANGED <<issued, result, gpu_devices, returned, identity_seen>>
    /\ UNCHANGED parser_vars

\* lines 109-129: one iteration of `for key, item in device_info.items()`
JoinStep ==
    /\ pc = "join"
    /\ Len(gpu_devices) < Len(infos[1])
    /\ LET e == infos[1][Len(gpu_devices) + 1]
           r == DeviceRecord(e.k, e.v, infos[2], infos[3], infos[4])
       IN  IF r.raise
           THEN /\ error' = r.error
                /\ pc' = "failed"
                /\ gpu_devices' = gpu_devices
           ELSE /\ gpu_devices' = Append(gpu_devices, r.device)
                /\ pc' = "join"
                /\ error' = error
    /\ UNCHANGED <<issued, result, infos, returned, identity_seen>>
    /\ UNCHANGED parser_vars

\* lines 130-131: the loop is over, the list is returned
Return ==
    /\ pc = "join"
    /\ Len(gpu_devices) = Len(infos[1])
    /\ returned' = [given |-> TRUE, list |-> gpu_devices]
    /\ pc' = "done"
    /\ UNCHANGED <<issued, result, infos, gpu_devices, error, identity_seen>>
    /\ UNCHANGED parser_vars

Next == SubprocessRun \/ SubprocessRaise \/ GetInfo \/ JoinStep \/ Return

Spec == Init /\ [][Next]_vars

\* types of the gather call's variables
TypeOK ==
    /\ pc \in {"run", "ran", "join", "done", "failed"}
    /\ Len(issued) <= Len(Commands)
    /\ Len(infos) <= Len(issued)
    /\ returned.given = (pc = "done")
    /\ (error.exc # NoExc) = (pc = "failed")

-----------------------------------------------------------------------------
(* Properties of the gather call (Spec)                                    *)

\* the four dicts, once the four queries have returned
AllQueried == Len(infos) = Len(Commands)
device_info      == infos[1]
memory_info      == infos[2]
temperature_info == infos[3]
usage_info       == infos[4]

\* the identity entry e has its own fields and its id has the fields the
\* join reads in the memory, temperature and usage dicts
IdPresent(k) ==
    HasKey(memory_info, k) /\ HasKey(temperature_info, k) /\ HasKey(usage_info, k)
EntryComplete(e) ==
    /\ {Dev_Name, Dev_UUID} \subseteq DOMAIN e.v
    /\ IdPresent(e.k)
    /\ {Total_Size, Used_Size} \subseteq DOMAIN Lookup(memory_info, e.k)
    /\ GCU_Temp \in DOMAIN Lookup(temperature_info, e.k)
    /\ GCU_Usage \in DOMAIN Lookup(usage_info, e.k)

\* the record of the end-to-end scenario, for the sizes efsmi reports for
\* device 0 here: 1024 MiB total, 100 MiB used, 45 C, 12 %
ScenarioRecord ==
    [index |-> IntV(0), device_index |-> IntV(0), device_chip_index |-> IntV(0),
     name |-> StrV(<<"GCU0">>), uuid |-> StrV(<<"abc">>),
     vendor |-> "VendorEnum.Enflame", type |-> "DeviceTypeEnum.GPU",
     core |-> [utilization_rate |-> FloatV(120)],
     memory |-> [is_unified_memory |-> FALSE, total |-> IntV(1073741824),
                 used |-> IntV(104857600), utilization_rate |-> FloatV(120)],
     temperature |-> FloatV(450)]

\* C1: when the four queries succeed and every identity id has its fields in
\* the four dicts, gather returns, and the record of each identity id k has
\* index k, name and uuid of the identity block of k, total and used of the
\* memory block of k, the temperature of k, both utilization rates equal to
\* the usage of k, and is_unified_memory false; one block of device 0 alone
\* gives exactly the scenario's record.
C1_RecordsAssembled ==
    /\ (AllQueried /\ \A i \in 1..Len(device_info) : EntryComplete(device_info[i]))
          => pc \in {"join", "done"}
    /\ pc = "done" =>
          /\ Len(returned.list) = Len(device_info)
          /\ \A i \in 1..Len(returned.list) :
                LET k == device_info[i].k
                    r == returned.list[i]
                IN  /\ r.index = k
                    /\ r.name = device_info[i].v[Dev_Name]
                    /\ r.uuid = device_info[i].v[Dev_UUID]
                    /\ r.memory.total = Lookup(memory_info, k)[Total_Size]
                    /\ r.memory.used = Lookup(memory_info, k)[Used_Size]
                    /\ r.temperature = Lookup(temperature_info, k)[GCU_Temp]
                    /\ r.core.utilization_rate = Lookup(usage_info, k)[GCU_Usage]
                    /\ r.memory.utilization_rate = Lookup(usage_info, k)[GCU_Usage]
                    /\ r.memory.is_unified_memory = FALSE
          /\ (Keys(device_info) = <<IntV(0)>> => returned.list = <<ScenarioRecord>>)

\* C1 witness: gather returned two records, device 1 then device 0, the
\* second being the scenario's record
C1_Witness ==
    /\ pc = "done"
    /\ Len(returned.list) = 2
    /\ returned.list[1].index = IntV(1)
    /\ returned.list[2] = ScenarioRecord

\* an identity id that the memory, temperature or usage dict lacks
MissingIds == {i \in 1..Len(device_info) : ~IdPresent(device_info[i].k)}

\* C2: when an identity id is absent from the memory, temperature or usage
\* dict, gather never returns: the loop does not get past that id, nothing
\* is handed to the caller, and a failed call hands over no record at all.
C2_NoPartialOutput ==
    /\ (AllQueried /\ MissingIds # {}) =>
          /\ pc \in {"join", "failed"}
          /\ ~returned.given
          /\ \A i \in MissingIds : Len(gpu_devices) < i
    /\ pc = "failed" => (~returned.given /\ returned.list = <<>>)

\* C2 witness: the record of device 0 was built, device 1 is in no memory
\* block, the call failed and returned nothing
C2_Witness ==
    /\ pc = "failed"
    /\ AllQueried
    /\ Len(gpu_devices) = 1
    /\ Keys(device_info) = <<IntV(0), IntV(1)>>
    /\ ~HasKey(memory_info, IntV(1))
    /\ {Dev_Name, Dev_UUID} \subseteq DOMAIN device_info[2].v
    /\ ~returned.given

\* the identity entry the loop was at when the call failed in the join
FailedEntry == device_info[Len(gpu_devices) + 1]

\* C3: the error of a cross-reference miss names the missing id and the
\* category (memory, temperature or usage) that lacks it.
C3_ErrorNamesIdAndCategory ==
    (/\ pc = "failed"
     /\ AllQueried
     /\ {Dev_Name, Dev_UUID} \subseteq DOMAIN FailedEntry.v
     /\ ~IdPresent(FailedEntry.k))
    => /\ error.key = FailedEntry.k
       /\ "category" \in DOMAIN error

\* the latest subprocess.run completed and _get_gpu_info has dealt with it
LatestHandled ==
    /\ Len(issued) >= 1
    /\ pc # "ran"
    /\ ~(pc = "failed" /\ error = SpawnError(issued[Len(issued)]))

\* C4: a query whose stdout holds the "no devices" marker yields the empty
\* dict for its category and no error of its own.
C4_NoDevicesIsEmptyDict ==
    (LatestHandled /\ HasNoDevices(result.stdout))
    => /\ Len(infos) = Len(issued)
       /\ infos[Len(issued)] = <<>>
       /\ (pc = "failed" => error.exc = "KeyError")

\* the error is the runner's execution failure for the latest process and
\* its message holds the exit code and both streams
IsExecutionFailureOf(res) ==
    /\ pc = "failed"
    /\ error.exc = "Exception"
    /\ error.message = "Failed to execute"
    /\ {"returncode", "stdout", "stderr"} \subseteq DOMAIN error
    /\ error.returncode = res.returncode
    /\ error.stdout = res.stdout
    /\ error.stderr = res.stderr

\* C5 as stated: every invocation that ends with a non-zero exit status and
\* a non-empty stdout, whatever the text, raises an execution failure whose
\* message holds the exit code, the stdout and the stderr.
C5_AnyStdout ==
    (LatestHandled /\ result.returncode # 0 /\ result.stdout # <<>>)
    => IsExecutionFailureOf(result)

\* C5: every invocation that ends with a non-zero exit status and a
\* non-empty stdout that does not hold the "no devices" marker raises an
\* execution failure whose message holds the exit code, the stdout and the
\* stderr; with the marker the runner returns None whatever the exit status.
C5_ExecutionFailure ==
    /\ (LatestHandled /\ result.returncode # 0 /\ result.stdout # <<>>
                      /\ ~HasNoDevices(result.stdout))
          => IsExecutionFailureOf(result)
    /\ (LatestHandled /\ result.returncode # 0 /\ HasNoDevices(result.stdout))
          => (pc = "failed" /\ error = [exc |-> "Exception",
                                        message |-> "Failed to get GPU base info"])

\* C5 witness: the memory query exited with status 1 after printing two
\* device blocks and the call failed with the execution failure
C5_Witness ==
    /\ Len(issued) = 2
    /\ result.returncode = 1
    /\ Len(result.stdout) >= 4
    /\ result.stderr = ErrText
    /\ ~HasNoDevices(result.stdout)
    /\ IsExecutionFailureOf(result)

\* C6: a returned list has one record per id of the identity dict, in the
\* order the ids were first seen in the identity text; an id that only the
\* memory, temperature or usage dict holds gives no record.
C6_IdentityOrder ==
    pc = "done" =>
        /\ Len(returned.list) = Len(identity_seen)
        /\ \A i \in 1..Len(returned.list) : returned.list[i].index = identity_seen[i]
        /\ Keys(device_info) = identity_seen
        /\ \A c \in 2..4 : \A j \in 1..Len(infos[c]) :
              (~HasKey(device_info, infos[c][j].k))
                 => \A i \in 1..Len(returned.list) : returned.list[i].index # infos[c][j].k

\* C6 witness: the identity text named device 1 then device 0, the memory
\* text named device 0 then device 1, and the records follow the identity text
C6_Witness ==
    /\ pc = "done"
    /\ identity_seen = <<IntV(1), IntV(0)>>
    /\ Keys(memory_info) = <<IntV(0), IntV(1)>>
    /\ Len(returned.list) = 2
    /\ returned.list[1].index = IntV(1)

\* the category selectors in the order identity, memory, temperature, usage
QueryOrder == <<"DEVICE", "MEMORY", "TEMP", "USAGE">>

\* the latest completed process is one _get_gpu_info fails on
LatestFails ==
    \/ HasNoDevices(result.stdout)
    \/ result.returncode # 0
    \/ result.stdout = <<>>
    \/ ParseOutput(result.stdout).raised # NoExc

\* C10: the queries are issued in the order identity, memory, temperature,
\* usage, each once; a query is issued only when every earlier one gave its
\* dict; once a query has failed (execution failure, parse failure or no
\* data) the call has failed and issues nothing more.
C10_QueriesInOrder ==
    /\ [](/\ Len(issued) <= 4
          /\ \A i \in 1..Len(issued) :
                issued[i] = <<"efsmi", "-q", "-d", QueryOrder[i]>>
          /\ (LatestHandled /\ LatestFails) => (pc = "failed" /\ Len(infos) = Len(issued) - 1)
          /\ (pc = "failed" /\ ~AllQueried) => Len(issued) = Len(infos) + 1)
    /\ [][/\ (issued' # issued) =>
                /\ pc = "run"
                /\ error.exc = NoExc
                /\ Len(infos) = Len(issued)
                /\ Len(issued') = Len(issued) + 1
          /\ (pc = "failed") => (issued' = issued /\ pc' = "failed")]_vars

\* C10 witness: the identity query gave its dict, the memory query printed a
\* malformed reading, and the call failed with two commands issued
C10_Witness ==
    /\ pc = "failed"
    /\ Len(issued) = 2
    /\ Len(infos) = 1
    /\ error.exc = "ValueError"
    /\ result.returncode = 0

-----------------------------------------------------------------------------
(* Properties of the parser (ParserSpec)                                   *)

\* the lines the loop has gone through
Consumed == IF pc = "parsed" THEN Len(output) ELSE line_no - 1

\* the indices of the boundary lines of a text
BoundaryIdx(text) == {i \in 1..Len(text) : DevIdMatch(text[i])}

\* the key and the stored value a property line gives
LineKey(line)   == ReplaceSpaces(PropertyKeyGroup(line))
LineValue(line) == Coerce(LineKey(line), Strip(PropertyValueGroup(line))).value

\* a sequence of device blocks: a boundary line first, then boundary lines
\* and property lines only
WellFormed(text) ==
    text # <<>> =>
        /\ DevIdMatch(text[1])
        /\ \A i \in 1..Len(text) : DevIdMatch(text[i]) \/ PropertyMatch(text[i])

DistinctIds(text) ==
    \A i, j \in BoundaryIdx(text) : i # j => DevIdGroup(text[i]) # DevIdGroup(text[j])

\* C7: for a well-formed text of N device blocks with pairwise distinct ids
\* the returned dict has N entries, keyed by the ids of the boundary lines.
C7_OneEntryPerBlock ==
    (pc = "parsed" /\ WellFormed(output) /\ DistinctIds(output))
    => /\ Len(devices) = Cardinality(BoundaryIdx(output))
       /\ Keys(devices) = FirstSeen(output, <<>>)

\* every dict the parser holds: the saved ones and the accumulator
HeldDicts == {devices[i].v : i \in 1..Len(devices)} \cup {current_device}

\* C8: while no boundary line has been read the accumulator stays closed and
\* the dict empty, whatever property lines were read; and every field of the
\* returned dict comes from a property line that follows a boundary line.
C8_LeadingPropertyDropped ==
    /\ (\A i \in 1..Consumed : ~DevIdMatch(output[i]))
          => (~IsOpen(current_device) /\ devices = <<>> /\ raised = NoExc)
    /\ \A d \in HeldDicts : \A key \in DOMAIN d :
          \/ key = DEV_ID /\ d[key].ty = "int"
          \/ \E b \in BoundaryIdx(output) : \E i \in (b + 1)..Len(output) :
                /\ PropertyMatch(output[i])
                /\ LineKey(output[i]) = key
                /\ LineValue(output[i]) = d[key]

\* C8 witness: a size line, then the boundary line of device 0; the parse
\* returned the one entry of device 0, which holds its id only
C8_Witness ==
    /\ pc = "parsed"
    /\ output = <<LineTotalSize, LineDev0>>
    /\ Len(devices) = 1
    /\ DOMAIN devices[1].v = {DEV_ID}

\* the normalized key ends with "size"
EndsWithSize(key) == key # <<>> /\ key[Len(key)] = "size"

\* C9 as stated: every field whose normalized key ends with "size" is held
\* as an integer, never as a string.
C9_AnySizeKey ==
    \A d \in HeldDicts : \A key \in DOMAIN d : EndsWithSize(key) => d[key].ty = "int"

\* C9: every field whose normalized key ends with "_Size" is held as the
\* integer (leading token) * 1024 * 1024 of a property line with that key,
\* never as a string: "100 MiB" is held as 104857600.
C9_SizeInBytes ==
    \A d \in HeldDicts : \A key \in DOMAIN d :
        IsSizeKey(key) =>
            /\ d[key].ty = "int"
            /\ \E i \in 1..Len(output) :
                  /\ PropertyMatch(output[i])
                  /\ LineKey(output[i]) = key
                  /\ LET tok == Strip(PropertyValueGroup(output[i]))[1]
                     IN  d[key].n = DecimalValue[tok] * 1024 * 1024
            /\ (key = Total_Size => d[key] = IntV(104857600))

\* C9 witness: "Total Size : 100 MiB" read in the block of device 1 and
\* returned as 104857600
C9_Witness ==
    /\ pc = "parsed"
    /\ Len(devices) = 1
    /\ Total_Size \in DOMAIN devices[1].v
    /\ devices[1].v[Total_Size] = IntV(104857600)
    /\ devices[1].k = IntV(1)

\* the identity entries whose id is in every dict but whose block lacks a
\* required field in some category
LackingField ==
    {i \in 1..Len(device_info) :
        IdPresent(device_info[i].k) /\ ~EntryComplete(device_info[i])}

\* every field of the record r holds a parsed value of its kind
FullyPopulated(r) ==
    /\ DOMAIN r = {"index", "device_index", "device_chip_index", "name", "uuid",
                   "vendor", "type", "core", "memory", "temperature"}
    /\ r.name.ty = "str" /\ r.uuid.ty = "str"
    /\ r.memory.total.ty = "int" /\ r.memory.used.ty = "int"
    /\ r.temperature.ty = "float"
    /\ r.core.utilization_rate.ty = "float"
    /\ r.memory.utilization_rate.ty = "float"

\* C11: a gather call returns a complete list or fails as a whole. When it
\* returns, every identity entry had all its required fields in the blocks
\* of its own id and every record is fully populated from them, none by a
\* default; when the block of an identity id lacks a required field
\* (Dev_Name, Dev_UUID, Total_Size, Used_Size, GCU_Temp, GCU_Usage) in its
\* category, the loop does not get past that id and nothing is returned.
C11_CompleteOrNothing ==
    /\ pc = "done" =>
          /\ returned.list = gpu_devices
          /\ Len(returned.list) = Len(device_info)
          /\ \A i \in 1..Len(device_info) :
                /\ EntryComplete(device_info[i])
                /\ FullyPopulated(returned.list[i])
                /\ returned.list[i].index = device_info[i].k
                /\ returned.list[i].name = device_info[i].v[Dev_Name]
                /\ returned.list[i].memory.used =
                      Lookup(memory_info, device_info[i].k)[Used_Size]
                /\ returned.list[i].temperature =
                      Lookup(temperature_info, device_info[i].k)[GCU_Temp]
    /\ (AllQueried /\ LackingField # {}) =>
          /\ pc \in {"join", "failed"}
          /\ ~returned.given
          /\ \A i \in LackingField : Len(gpu_devices) < i
    /\ ~returned.given => returned.list = <<>>

\* C11 witness: device 1 is in every dict, its temperature block has no
\* GCU Temp line, the record of device 0 was built and the call failed
C11_Witness ==
    /\ pc = "failed"
    /\ AllQueried
    /\ Len(gpu_devices) = 1
    /\ FailedEntry.k = IntV(1)
    /\ IdPresent(IntV(1))
    /\ GCU_Temp \notin DOMAIN Lookup(temperature_info, IntV(1))
    /\ error = KeyError(StrV(GCU_Temp))
    /\ ~returned.given

\* the call failed with the runner's "Failed to execute ..." exception
RunnerFailed ==
    /\ pc = "failed"
    /\ "message" \in DOMAIN error
    /\ error.message = "Failed to execute"

\* C12 as stated: every execution failure of the runner, whether the
\* process failed to run, exited non-zero or printed nothing, carries the
\* command, the exit code, the captured stdout and the captured stderr.
C12_EveryCauseCarriesAll ==
    RunnerFailed =>
        {"command", "returncode", "stdout", "stderr"} \subseteq DOMAIN error

\* C12: every execution failure of the runner carries the command of the
\* latest query; for a process that exited non-zero or printed nothing it
\* also carries that process's exit code, stdout and stderr, and each such
\* process gives this failure; for a process that failed to run it carries
\* no exit code and neither stream, there being none.
C12_CompletedCausesCarryAll ==
    /\ RunnerFailed =>
          /\ "command" \in DOMAIN error
          /\ error.command = <<"efsmi", "-q", "-d", QueryOrder[Len(issued)]>>
          /\ error.cause \in {"Unexpected return code", "Output is empty", "OSError"}
          /\ error.cause = "Unexpected return code" =>
                (result.returncode # 0 /\ IsExecutionFailureOf(result))
          /\ error.cause = "Output is empty" =>
                (result.returncode = 0 /\ result.stdout = <<>>
                 /\ IsExecutionFailureOf(result))
          /\ error.cause = "OSError" =>
                DOMAIN error \cap {"returncode", "stdout", "stderr"} = {}
    /\ (LatestHandled /\ result.returncode = 0 /\ result.stdout = <<>>)
          => (RunnerFailed /\ error.cause = "Output is empty")

\* C12 witness: the temperature query exited with status 0 and printed
\* nothing, and the failure carries its command, exit code and empty streams
C12_Witness ==
    /\ RunnerFailed
    /\ Len(issued) = 3
    /\ error.cause = "Output is empty"
    /\ error.command = <<"efsmi", "-q", "-d", "TEMP">>
    /\ error.returncode = 0
    /\ error.stdout = <<>>
    /\ error.stderr = <<>>

\* the first token after the ":" of a property line that is not whitespace,
\* "" when there is none
LeadingToken(line) ==
    LET rest == From(line, FirstColon(line) + 1)
        idx  == {i \in 1..Len(rest) : ~IsSpace(rest[i])}
    IN  IF idx = {} THEN ""
        ELSE rest[CHOOSE i \in idx : \A j \in idx : i <= j]

\* a size, temperature or usage property line whose value has no leading
\* numeric token
MalformedReading(line) ==
    /\ PropertyMatch(line)
    /\ (IsSizeKey(LineKey(line)) \/ LineKey(line) \in {GCU_Temp, GCU_Usage})
    /\ ~IsFloatLiteral(LeadingToken(line))

\* the fields of the dicts the parser holds are numbers wherever the key is
\* a size, temperature or usage key, each read from a line with a number
ReadingsAreNumbers ==
    \A d \in HeldDicts : \A key \in DOMAIN d :
        (IsSizeKey(key) \/ key \in {GCU_Temp, GCU_Usage}) =>
            /\ d[key].ty \in {"int", "float"}
            /\ d[key].n # 0
            /\ \E i \in 1..Len(output) :
                  /\ PropertyMatch(output[i])
                  /\ LineKey(output[i]) = key
                  /\ ~MalformedReading(output[i])

\* C13 as stated: a size, temperature or usage property whose value has no
\* leading numeric token makes the parse fail: the loop never gets past
\* such a line; and its value is never stored as zero, a default or a string.
C13_AnyMalformedFails ==
    /\ \A i \in 1..Consumed : ~MalformedReading(output[i])
    /\ ReadingsAreNumbers

\* C13: a size, temperature or usage property line that follows a boundary
\* line and whose value has no leading numeric token makes the parse fail
\* with IndexError (no token) or ValueError (not a number), and
\* _get_gpu_info with that text raises, so the gather call fails; before the
\* first boundary line such a line is dropped like any other property line;
\* no such value is ever stored as zero, a default or a string.
C13_MalformedInBlockFails ==
    /\ \A i \in 1..Consumed :
          MalformedReading(output[i]) => \A j \in 1..(i - 1) : ~DevIdMatch(output[j])
    /\ pc = "parse_failed" =>
          /\ MalformedReading(output[line_no])
          /\ \E j \in 1..(line_no - 1) : DevIdMatch(output[j])
          /\ raised = (IF LeadingToken(output[line_no]) = "" THEN "IndexError"
                       ELSE "ValueError")
          /\ GetGpuInfo(<<"efsmi", "-q", "-d", "MEMORY">>,
                        [returncode |-> 0, stdout |-> output, stderr |-> <<>>])
                = [kind |-> "raise", error |-> [exc |-> raised]]
    /\ ReadingsAreNumbers

\* C13 witness: in the block of device 0, after a good size line, the line
\* "Used Size :" has no token and the parse failed with IndexError
C13_Witness ==
    /\ pc = "parse_failed"
    /\ output = <<LineDev0, LineTotalSize, LineUsedEmpty>>
    /\ line_no = 3
    /\ raised = "IndexError"
    /\ current_device[Total_Size] = IntV(104857600)
    /\ devices = <<>>

\* the ids a dict holds
KeySet(d) == {d[i].k : i \in 1..Len(d)}

\* C14 as stated: whenever gather returns records, the identity, memory,
\* temperature and usage dicts hold the same ids.
C14_IdenticalKeySets ==
    (pc = "done" /\ returned.list # <<>>) =>
        \A c \in 2..4 : KeySet(infos[c]) = KeySet(device_info)

\* C14: whenever gather returns, every id of the identity dict is an id of
\* the memory, of the temperature and of the usage dict; these three may
\* hold further ids, which give no record.
C14_IdentityKeysCovered ==
    pc = "done" =>
        /\ \A c \in 2..4 : KeySet(device_info) \subseteq KeySet(infos[c])
        /\ {returned.list[i].index : i \in 1..Len(returned.list)} = KeySet(device_info)

\* C14 witness: the identity, memory and temperature texts name device 0
\* alone, the usage text names devices 0 and 1, and gather returned the one
\* record of device 0
C14_Witness ==
    /\ pc = "done"
    /\ Len(returned.list) = 1
    /\ KeySet(device_info) = {IntV(0)}
    /\ KeySet(memory_info) = {IntV(0)}
    /\ KeySet(temperature_info) = {IntV(0)}
    /\ KeySet(usage_info) = {IntV(0), IntV(1)}

\* the text holds "no devices" in some letter case
MarkerAnyCase(text) ==
    \E l \in 1..Len(text) : \E i \in 1..(Len(text[l]) - 2) :
        /\ text[l][i] \in {"no", "No", "NO"}
        /\ text[l][i + 1] = " "
        /\ text[l][i + 2] \in {"devices", "Devices", "DEVICES"}

\* what follows the runner's no-data result in _get_gpu_info
NoDataError == [exc |-> "Exception", message |-> "Failed to get GPU base info"]

\* C15: the runner classifies every completed process in this order: stdout
\* holds "no devices" in any letter case: no-data result, whatever the exit
\* status; else a non-zero exit status: execution failure; else an empty
\* stdout: execution failure; else the stdout text goes to the parser as it
\* is.
C15_ClassifiedInOrder ==
    LatestHandled =>
        IF MarkerAnyCase(result.stdout)
        THEN pc = "failed" /\ error = NoDataError
        ELSE IF result.returncode # 0
        THEN /\ RunnerFailed
             /\ error.cause = "Unexpected return code"
             /\ error.returncode = result.returncode
        ELSE IF result.stdout = <<>>
        THEN RunnerFailed /\ error.cause = "Output is empty"
        ELSE /\ ~RunnerFailed
             /\ error # NoDataError
             /\ IF ParseOutput(result.stdout).raised # NoExc
                THEN pc = "failed" /\ error = [exc |-> ParseOutput(result.stdout).raised]
                ELSE /\ Len(infos) = Len(issued)
                     /\ infos[Len(issued)] = ParseOutput(result.stdout).devices

\* C15 witness: the temperature query exited with status 1 and printed
\* "No devices found"; the runner gave the no-data result, not an
\* execution failure
C15_Witness ==
    /\ Len(issued) = 3
    /\ result.returncode = 1
    /\ result.stdout = NoDevicesText
    /\ pc = "failed"
    /\ error = NoDataError

\* C16: every key of the returned dict is the integer id declared on a
\* boundary line of the text, and every entry is kept under the id of the
\* boundary line that opened it: no property line, "DEV ID : 5" included,
\* changes the id the accumulator is saved under.
C16_KeysAreDeclaredIds ==
    /\ \A i \in 1..Len(devices) :
          /\ devices[i].k.ty = "int"
          /\ \E b \in BoundaryIdx(output) :
                devices[i].k = IntV(DecimalValue[DevIdGroup(output[b])])
    /\ (IsOpen(current_device) /\ Consumed >= 1) =>
          \E b \in BoundaryIdx(output) :
              /\ b <= Consumed
              /\ \A j \in (b + 1)..Consumed : ~DevIdMatch(output[j])
              /\ current_device[DEV_ID] = IntV(DecimalValue[DevIdGroup(output[b])])

\* the positions of a line at which "DEV ID <integer>" begins
MarkerAt(line) ==
    {i \in 1..(Len(line) - 4) :
        /\ line[i] = "DEV" /\ line[i + 1] = " " /\ line[i + 2] = "ID"
        /\ line[i + 3] = " " /\ IsDigits(line[i + 4])}

\* the integer of the first "DEV ID <integer>" of a line
MarkedId(line) ==
    LET i == CHOOSE i \in MarkerAt(line) : \A j \in MarkerAt(line) : i <= j
    IN  IntV(DecimalValue[line[i + 4]])

\* C17: every line that contains "DEV ID <integer>", also after leading
\* whitespace or other text, is a device boundary: reading it saves the open
\* accumulator in the dict under its id and opens a new accumulator that
\* holds the line's integer id alone.
C17_ContainingLineIsBoundary ==
    [][(pc = "parse" /\ line_no <= Len(output) /\ MarkerAt(output[line_no]) # {})
        => /\ current_device' = (DEV_ID :> MarkedId(output[line_no]))
           /\ IsOpen(current_device) =>
                 /\ HasKey(devices', current_device[DEV_ID])
                 /\ Lookup(devices', current_device[DEV_ID]) = current_device
      ]_vars

\* the loop is about to read a line
AtLine == pc = "parse" /\ line_no <= Len(output)

\* the dict d holds the accumulator cur under the id cur records
SavedIn(d, cur) == HasKey(d, cur[DEV_ID]) /\ Lookup(d, cur[DEV_ID]) = cur

\* C18: the accumulator starts closed, is open exactly from the first
\* boundary line on and never closes again; a boundary line read with the
\* accumulator open saves it in the dict before a new one, holding the new
\* id alone, takes its place; at the end of the text the open accumulator is
\* saved, so the last block is in the returned dict and a block with no
\* property line gives an entry that holds its id alone; a blank line or a
\* line that matches neither pattern changes neither accumulator nor dict.
C18_AccumulatorLifeCycle ==
    /\ [](/\ Consumed = 0 => (~IsOpen(current_device) /\ devices = <<>>)
          /\ IsOpen(current_device) <=> \E i \in 1..Consumed : DevIdMatch(output[i])
          /\ (pc = "parsed" /\ IsOpen(current_device)) => SavedIn(devices, current_device)
          /\ (pc = "parsed" /\ output # <<>> /\ DevIdMatch(output[Len(output)])) =>
                LET id == IntV(DecimalValue[DevIdGroup(output[Len(output)])])
                IN  HasKey(devices, id) /\ Lookup(devices, id) = (DEV_ID :> id))
    /\ [][IsOpen(current_device) => IsOpen(current_device')]_vars
    /\ [][(AtLine /\ DevIdMatch(output[line_no]) /\ IsOpen(current_device))
            => /\ SavedIn(devices', current_device)
               /\ DOMAIN current_device' = {DEV_ID}]_vars
    /\ [][(AtLine /\ ~DevIdMatch(output[line_no]) /\ ~PropertyMatch(output[line_no]))
            => UNCHANGED <<devices, current_device, raised>>]_vars

\* C18 witness: two blocks with no property line and a blank line between
\* them; the returned dict holds both, each with its id alone
C18_Witness ==
    /\ pc = "parsed"
    /\ output = <<LineDev0, LineBlank, LineDev1>>
    /\ devices = << [k |-> IntV(0), v |-> (DEV_ID :> IntV(0))],
                    [k |-> IntV(1), v |-> (DEV_ID :> IntV(1))] >>

\* the boundary lines of a text that declare the same id as the one at b
SameIdAs(text, b) ==
    {c \in BoundaryIdx(text) : DevIdGroup(text[c]) = DevIdGroup(text[b])}

\* the fields of the block the boundary line at b opens: its id, and for
\* each key of its property lines the value of the last line with that key
BlockFields(text, b) ==
    LET later == {j \in BoundaryIdx(text) : j > b}
        end   == IF later = {} THEN Len(text)
                 ELSE (CHOOSE j \in later : \A k \in later : j <= k) - 1
        P     == {i \in (b + 1)..end : PropertyMatch(text[i])}
        K     == {LineKey(text[i]) : i \in P}
        LastOf(key) == CHOOSE i \in P :
                          /\ LineKey(text[i]) = key
                          /\ \A j \in P : LineKey(text[j]) = key => j <= i
    IN  [key \in K \cup {DEV_ID} |->
            IF key \in K THEN LineValue(text[LastOf(key)])
            ELSE IntV(DecimalValue[DevIdGroup(text[b])])]

\* C19: when several blocks of a text declare the same id, the returned
\* dict has one entry for that id, its fields are exactly those of the last
\* of these blocks (nothing of the earlier ones is kept), and the id stands
\* where it was first seen.
C19_LastBlockWins ==
    pc = "parsed" =>
        \A b \in BoundaryIdx(output) :
            Cardinality(SameIdAs(output, b)) >= 2 =>
                LET id   == IntV(DecimalValue[DevIdGroup(output[b])])
                    last == CHOOSE c \in SameIdAs(output, b) :
                                \A e \in SameIdAs(output, b) : e <= c
                    seen == FirstSeen(output, <<>>)
                IN  /\ Cardinality({i \in 1..Len(devices) : devices[i].k = id}) = 1
                    /\ Lookup(devices, id) = BlockFields(output, last)
                    /\ \E p \in 1..Len(devices) :
                          devices[p].k = id /\ p <= Len(seen) /\ seen[p] = id

\* the identity query gave a dict with no device
IdentityEmpty == Len(infos) >= 1 /\ infos[1] = <<>>

\* C20: an identity query that exits with status 0 and prints a non-empty
\* text with no marker and no device block gives the empty identity dict;
\* gather then returns the empty list, with no error, when the memory,
\* temperature and usage queries each give their dict, whatever devices
\* these hold; it fails when one of the three fails, and only then.
C20_EmptyIdentityReturnsEmpty ==
    /\ (/\ Len(issued) = 1 /\ LatestHandled
        /\ result.returncode = 0 /\ result.stdout # <<>>
        /\ ~MarkerAnyCase(result.stdout)
        /\ \A l \in 1..Len(result.stdout) : MarkerAt(result.stdout[l]) = {})
          => (pc = "run" /\ IdentityEmpty /\ identity_seen = <<>>)
    /\ (AllQueried /\ IdentityEmpty) =>
          /\ pc \in {"join", "done"}
          /\ gpu_devices = <<>>
          /\ pc = "done" => (returned.given /\ returned.list = <<>>)
    /\ (IdentityEmpty /\ Len(issued) >= 2 /\ LatestHandled /\ LatestFails)
          => (pc = "failed" /\ ~returned.given)
    /\ (IdentityEmpty /\ pc = "failed") =>
          /\ Len(infos) < 4
          /\ error.exc # "KeyError"
          /\ (LatestHandled => LatestFails)

\* C20 witness: the identity text held no device block, the memory text
\* two blocks, the temperature and usage texts the block of device 0, and
\* gather returned the empty list
C20_Witness ==
    /\ pc = "done"
    /\ identity_seen = <<>>
    /\ device_info = <<>>
    /\ KeySet(memory_info) = {IntV(0), IntV(1)}
    /\ KeySet(temperature_info) = {IntV(0)}
    /\ KeySet(usage_info) = {IntV(0)}
    /\ returned = [given |-> TRUE, list |-> <<>>]
    /\ error.exc = NoExc

====
